---- MODULE Spec2Model ----
(***************************************************************************)
(* A model of the vvlang front end: the character-level Lexer              *)
(* (src/src/core/lexer.rs), the Token vocabulary (src/src/core/tokens.rs)  *)
(* and the statement Parser (src/src/core/parser.rs).                      *)
(*                                                                         *)
(* A character is a one-character string, a text is a sequence of          *)
(* characters, and a token literal is a text.  The NUL character ('\0')    *)
(* is written NUL.                                                         *)
(***************************************************************************)
EXTENDS Integers, Sequences, FiniteSets, TLC

VARIABLES
    src,            \* the pieces the input text was put together from
    input,          \* Lexer.input: the text handed to Lexer::new / Parser::new
    pc,             \* where the client is: start, lexer, lexer_err, parser, parser_err, done, panic
    lexer,          \* Lexer { position, read_position, char }
    calls,          \* the tokens a lexer client got from next_token, with the cursor before each call
    current_token,  \* Parser.current_token
    peek_token,     \* Parser.peek_token
    errors,         \* Parser.errors
    statements,     \* program.statements of the running parse_program
    line_num,       \* line_num of the running parse_program
    stderr          \* what each report_errors call has printed

vars == <<src, input, pc, lexer, calls, current_token, peek_token, errors, statements, line_num, stderr>>

(***************************************************************************)
(* Bounds of the model.                                                    *)
(***************************************************************************)
MaxPieces == 3      \* pieces of text an input is put together from
MaxWs == 4          \* characters of a whitespace-only input
MaxSymbols == 3     \* characters of a symbols-only input
MaxStmts == 2       \* statements of a generated program
MaxPastEnd == 2     \* next_token calls a lexer client makes past the end of the input
MaxReports == 2     \* report_errors calls a parser client makes
MaxSample == 4      \* lines of a program put together from the lines of the sample script
MaxChars == 3       \* characters of an input put together character by character

(***************************************************************************)
(* Characters.                                                             *)
(***************************************************************************)
NUL == "NUL"

\* the character U+00BD, VULGAR FRACTION ONE HALF: numeric to char::is_numeric, no digit
Half == "U+00BD"

LowerAY == {"a","b","c","d","e","f","g","h","i","j","k","l","m",
            "n","o","p","q","r","s","t","u","v","w","x","y"}
UpperAY == {"A","B","C","D","E","F","G","H","I","J","K","L","M",
            "N","O","P","Q","R","S","T","U","V","W","X","Y"}

\* once(b'_').chain(b'a'..b'z').chain(b'A'..b'Z'): both ranges are half-open
LETTERS == {"_"} \cup LowerAY \cup UpperAY

\* a whitespace table that forgets the carriage return
WHITESPACE_NoCR == {" ", "\t", "\n"}

WHITESPACE == {" ", "\t", "\r", "\n"}

AsciiDigits == {"0","1","2","3","4","5","6","7","8","9"}

is_letter(c) == c \in LETTERS

\* char::is_numeric, on the characters of the model: the Unicode categories Nd, Nl and No
is_numeric(c) == c \in AsciiDigits \cup {Half}

(***************************************************************************)
(* Tokens.                                                                 *)
(***************************************************************************)
Token(type, literal) == [type |-> type, literal |-> literal]

EOFToken == Token("EOF", <<>>)

\* a keyword table that also knows "if"
KEYWORDS_WithIf ==
    [s \in {<<"f","n">>, <<"l","e","t">>, <<"i","f">>} |->
        IF s = <<"f","n">> THEN "Function" ELSE IF s = <<"i","f">> THEN "If" ELSE "Let"]

\* phf_map! { "fn" => Function, "let" => Let }
KEYWORDS ==
    [s \in {<<"f","n">>, <<"l","e","t">>} |->
        IF s = <<"f","n">> THEN "Function" ELSE "Let"]

(***************************************************************************)
(* Lexer.                                                                  *)
(***************************************************************************)
\* text.chars().nth(i), None as NUL is what read_char makes of it
Nth(text, i) == IF i < Len(text) THEN text[i + 1] ELSE NUL

\* a construction that also refuses a text whose first character is NUL
LexerNewFails_NulHead(text) == Len(text) = 0 \/ text[1] = NUL

LexerNewFails(text) == Len(text) = 0

\* a construction that starts position and read_position at the same character
LexerNew_ReadZero(text) == [position |-> 0, read_position |-> 0, char |-> text[1]]

LexerNew(text) == [position |-> 0, read_position |-> 1, char |-> text[1]]

read_char(text, lx) ==
    [position |-> lx.read_position,
     read_position |-> lx.read_position + 1,
     char |-> Nth(text, lx.read_position)]

RECURSIVE skip_whitspace(_, _)
skip_whitspace(text, lx) ==
    IF lx.char \in WHITESPACE
    THEN skip_whitspace(text, read_char(text, lx))
    ELSE lx

\* the while loop of read_identifier: the letters read and the lexer after them
RECURSIVE ReadLetters(_, _, _)
ReadLetters(text, lx, letters) ==
    IF is_letter(lx.char)
    THEN ReadLetters(text, read_char(text, lx), Append(letters, lx.char))
    ELSE [s |-> letters, lx |-> lx]

read_identifier(text, lx) ==
    LET r == ReadLetters(text, lx, <<>>)
        token_type == IF r.s \in DOMAIN KEYWORDS THEN KEYWORDS[r.s] ELSE "Ident"
    IN  [tok |-> Token(token_type, r.s), lx |-> r.lx]

\* the while loop of read_number
RECURSIVE ReadDigits(_, _, _)
ReadDigits(text, lx, digits) ==
    IF is_numeric(lx.char)
    THEN ReadDigits(text, read_char(text, lx), Append(digits, lx.char))
    ELSE [s |-> digits, lx |-> lx]

read_number(text, lx) ==
    LET r == ReadDigits(text, lx, <<>>)
    IN  [tok |-> Token("Int", r.s), lx |-> r.lx]

\* a match whose `_` arm forgets the character
SymbolToken_EmptyIllegal(c) ==
    CASE c = "=" -> Token("Assign", <<c>>)
      [] c = "," -> Token("Comma", <<c>>)
      [] c = "+" -> Token("Plus", <<c>>)
      [] c = ";" -> Token("Semicolon", <<c>>)
      [] c = "(" -> Token("LParen", <<c>>)
      [] c = ")" -> Token("RParen", <<c>>)
      [] c = "{" -> Token("LBrace", <<c>>)
      [] c = "}" -> Token("RBrace", <<c>>)
      [] c = NUL -> Token("EOF", <<>>)
      [] OTHER   -> Token("Illegal", <<>>)

\* the match of next_token
SymbolToken(c) ==
    CASE c = "=" -> Token("Assign", <<c>>)
      [] c = "," -> Token("Comma", <<c>>)
      [] c = "+" -> Token("Plus", <<c>>)
      [] c = ";" -> Token("Semicolon", <<c>>)
      [] c = "(" -> Token("LParen", <<c>>)
      [] c = ")" -> Token("RParen", <<c>>)
      [] c = "{" -> Token("LBrace", <<c>>)
      [] c = "}" -> Token("RBrace", <<c>>)
      [] c = NUL -> Token("EOF", <<>>)
      [] OTHER   -> Token("Illegal", <<c>>)

\* Lexer::next_token: the token returned and the lexer after the call
Lexer_next_token(text, lx) ==
    LET l1 == skip_whitspace(text, lx)
    IN  IF is_letter(l1.char) THEN read_identifier(text, l1)
        ELSE IF is_numeric(l1.char) THEN read_number(text, l1)
        ELSE [tok |-> SymbolToken(l1.char), lx |-> read_char(text, l1)]

(***************************************************************************)
(* Input texts.                                                            *)
(***************************************************************************)
RECURSIVE Flatten(_)
Flatten(ss) == IF ss = <<>> THEN <<>> ELSE Head(ss) \o Flatten(Tail(ss))

SeqsUpTo(S, n) == UNION {[1..k -> S] : k \in 0..n}

\* a piece of source text: what it is (raw text, or a statement of some form), its
\* characters, and the identifier it names, if any
Piece(kind, text, id) == [kind |-> kind, text |-> text, id |-> id]

Raw(text) == Piece("raw", text, <<>>)

TextOf(pieces) == Flatten([i \in DOMAIN pieces |-> pieces[i].text])

NoLexer == [position |-> 0, read_position |-> 0, char |-> NUL]
NoToken == Token("None", <<>>)

\* the state before the client constructs anything, for an input put together from
\* at most n pieces of S
InitWith(S, n) ==
    /\ src \in SeqsUpTo(S, n)
    /\ input = TextOf(src)
    /\ pc = "start"
    /\ lexer = NoLexer
    /\ calls = <<>>
    /\ current_token = NoToken
    /\ peek_token = NoToken
    /\ errors = <<>>
    /\ statements = <<>>
    /\ line_num = 0
    /\ stderr = <<>>

(***************************************************************************)
(* A lexer client: Lexer::new, then next_token again and again.            *)
(***************************************************************************)
NewLexer ==
    /\ pc = "start"
    /\ IF LexerNewFails(input)
       THEN pc' = "lexer_err" /\ lexer' = lexer
       ELSE pc' = "lexer" /\ lexer' = LexerNew(input)
    /\ UNCHANGED <<src, input, stderr, calls, current_token, peek_token, errors, statements, line_num>>

NextToken ==
    /\ pc = "lexer"
    /\ lexer.position < Len(input) + MaxPastEnd
    /\ LET r == Lexer_next_token(input, lexer)
       IN  /\ lexer' = r.lx
           /\ calls' = Append(calls, [pos |-> lexer.position, tok |-> r.tok])
    /\ UNCHANGED <<src, input, stderr, pc, current_token, peek_token, errors, statements, line_num>>

(***************************************************************************)
(* Parser.  The parser's own fields are p.lexer, p.current_token and       *)
(* p.peek_token; a routine that may fail returns ok, the parser after the  *)
(* call and the statement or the message.                                  *)
(***************************************************************************)
Parser_next_token(text, p) ==
    LET r == Lexer_next_token(text, p.lexer)
    IN  [lexer |-> r.lx, current_token |-> p.peek_token, peek_token |-> r.tok]

\* Parser::new once Lexer::new has returned a lexer
ParserNew(text) ==
    LET first == Lexer_next_token(text, LexerNew(text))
        second == Lexer_next_token(text, first.lx)
    IN  [lexer |-> second.lx, current_token |-> first.tok, peek_token |-> second.tok]

current_token_is_of_type(p, t) == p.current_token.type = t

next_token_is_of_type(p, t) == p.peek_token.type = t

ParserError(message, ln, char_offset) ==
    [message |-> message, line_num |-> ln, char_offset |-> char_offset]

\* a filter that keeps everything
FilterSemicolon_Keep(lits) == lits

\* .filter(|&s| s != ";")
RECURSIVE FilterSemicolon(_)
FilterSemicolon(lits) ==
    IF lits = <<>> THEN <<>>
    ELSE IF Head(lits) # <<";">>
         THEN <<Head(lits)>> \o FilterSemicolon(Tail(lits))
         ELSE FilterSemicolon(Tail(lits))

\* .join(" ")
RECURSIVE Join(_)
Join(lits) ==
    IF lits = <<>> THEN <<>>
    ELSE IF Len(lits) = 1 THEN Head(lits)
    ELSE Head(lits) \o <<" ">> \o Join(Tail(lits))

\* the while loop of parse_let_statement and of parse_return_statement:
\* everything up to the semicolon is consumed
RECURSIVE ExpLoop(_, _, _)
\* the body of the loop once the literal is pushed and the parser advanced
ExpLoopBody(text, p, exp_literals) ==
    IF current_token_is_of_type(p, "EOF")
    THEN [ok |-> FALSE, p |-> p, exp_literals |-> exp_literals]
    ELSE ExpLoop(text, p, exp_literals)

ExpLoop(text, p, exp_literals) ==
    IF current_token_is_of_type(p, "Semicolon")
    THEN [ok |-> TRUE, p |-> p, exp_literals |-> exp_literals]
    ELSE ExpLoopBody(text, Parser_next_token(text, p), Append(exp_literals, p.peek_token.literal))

Expression(exp_literals) ==
    [tokens |-> <<Token("Illegal", Join(FilterSemicolon(exp_literals)))>>]

\* ast::Expression::literal
ExpressionLiteral(e) ==
    LET kept == SelectSeq(e.tokens, LAMBDA t : t.type # "Semicolon")
    IN  Join([i \in DOMAIN kept |-> kept[i].literal])

NoStatement == [kind |-> "None"]

Failed(p, message) == [ok |-> FALSE, p |-> p, statement |-> NoStatement, message |-> message]

Parsed(p, statement) == [ok |-> TRUE, p |-> p, statement |-> statement, message |-> <<>>]

MsgExpectedSemicolon == <<"Expected ';', found end of file (EOF)">>

\* a message that names the current token where the code names the peeked one
MsgExpectedIdentifier_Current(p) ==
    <<"Expected identifier, found '">> \o p.current_token.literal \o <<"'">>

MsgExpectedIdentifier(p) ==
    <<"Expected identifier, found '">> \o p.peek_token.literal \o <<"'">>

parse_let_statement(text, p) ==
    IF ~next_token_is_of_type(p, "Ident")
    THEN Failed(p, MsgExpectedIdentifier(p))
    ELSE LET p1 == Parser_next_token(text, p)
             identifier == [name |-> p1.current_token.literal]
             let_statement_token == p1.current_token
         IN  IF ~next_token_is_of_type(p1, "Assign")
             THEN Failed(p1, <<"Expected '=' operator, found ">> \o p1.peek_token.literal)
             ELSE LET r == ExpLoop(text, Parser_next_token(text, p1), <<>>)
                  IN  IF ~r.ok
                      THEN Failed(r.p, MsgExpectedSemicolon)
                      ELSE Parsed(r.p, [kind |-> "Assignment",
                                        token |-> let_statement_token,
                                        identifier |-> identifier,
                                        value |-> Expression(r.exp_literals)])

parse_return_statement(text, p) ==
    LET r == ExpLoop(text, p, <<>>)
    IN  IF ~r.ok
        THEN Failed(r.p, MsgExpectedSemicolon)
        ELSE Parsed(r.p, [kind |-> "Return",
                          token |-> Token("Return", <<"r","e","t","u","r","n">>),
                          value |-> Expression(r.exp_literals)])

\* the match on current_token of one iteration of parse_program, for the kinds that return
Dispatch(text, p, ln) ==
    CASE current_token_is_of_type(p, "NewLine") ->
            [p |-> p, statement |-> NoStatement, errs |-> <<>>, ln |-> ln + 1]
      [] current_token_is_of_type(p, "Let") ->
            LET r == parse_let_statement(text, p)
            IN  [p |-> r.p, statement |-> r.statement,
                 errs |-> IF r.ok THEN <<>> ELSE <<ParserError(r.message, ln, 0)>>,
                 ln |-> ln]
      [] current_token_is_of_type(p, "Return") ->
            LET r == parse_return_statement(text, p)
            IN  [p |-> r.p, statement |-> r.statement,
                 errs |-> IF r.ok THEN <<>> ELSE <<ParserError(r.message, ln, 0)>>,
                 ln |-> ln]
      [] OTHER ->
            [p |-> p, statement |-> NoStatement,
             errs |-> <<ParserError(<<"Unsupported token: '">> \o p.current_token.literal \o <<"'">>,
                                    ln, 0)>>,
             ln |-> ln]

\* a loop that does not read on
LoopAdvance_Skip(text, p) == p

\* the self.next_token() that ends an iteration of the loop of parse_program
LoopAdvance(text, p) == Parser_next_token(text, p)

ThisParser == [lexer |-> lexer, current_token |-> current_token, peek_token |-> peek_token]

(***************************************************************************)
(* A parser client: Parser::new, then parse_program.                       *)
(***************************************************************************)
NewParser ==
    /\ pc = "start"
    /\ IF LexerNewFails(input)
       THEN /\ pc' = "parser_err"
            /\ UNCHANGED <<lexer, current_token, peek_token>>
       ELSE LET p == ParserNew(input)
            IN  /\ pc' = "parser"
                /\ lexer' = p.lexer
                /\ current_token' = p.current_token
                /\ peek_token' = p.peek_token
    /\ UNCHANGED <<src, input, stderr, calls, errors, statements, line_num>>

\* parse_program up to its loop
ParseProgramStart ==
    /\ pc = "parser"
    /\ pc' = "parsing"
    /\ statements' = <<>>
    /\ line_num' = 1
    /\ UNCHANGED <<src, input, stderr, lexer, calls, current_token, peek_token, errors>>

\* the break of the loop of parse_program, which returns the program
ParseProgramBreak ==
    /\ pc = "parsing"
    /\ peek_token.type = "EOF"
    /\ pc' = "done"
    /\ UNCHANGED <<src, input, stderr, lexer, calls, current_token, peek_token, errors, statements, line_num>>

\* one iteration of the loop of parse_program
ParseProgramIter ==
    /\ pc = "parsing"
    /\ peek_token.type # "EOF"
    /\ IF current_token.type = "If"
       THEN \* parse_if_statement is todo!()
            /\ pc' = "panic"
            /\ UNCHANGED <<lexer, current_token, peek_token, errors, statements, line_num>>
       ELSE LET d == Dispatch(input, ThisParser, line_num)
                p == LoopAdvance(input, d.p)
            IN  /\ pc' = pc
                /\ line_num' = d.ln
                /\ errors' = errors \o d.errs
                /\ statements' = IF d.statement = NoStatement
                                 THEN statements
                                 ELSE Append(statements, d.statement)
                /\ lexer' = p.lexer
                /\ current_token' = p.current_token
                /\ peek_token' = p.peek_token
    /\ UNCHANGED <<src, input, stderr, calls>>

\* the lines of one report_errors call: nothing when there are no errors, else the
\* header and one line per error, in order
ReportLines(errs) ==
    IF errs = <<>> THEN <<>>
    ELSE <<[found |-> Len(errs), plural |-> IF Len(errs) <= 1 THEN "" ELSE "s"]>>
         \o [i \in DOMAIN errs |-> [line |-> errs[i].line_num, message |-> errs[i].message]]

\* a report that hands the errors over and leaves none behind
report_errors_Drain(errs) == [errors |-> <<>>, printed |-> ReportLines(errs)]

\* Parser::report_errors(&self): the errors after the call and what was printed
report_errors(errs) == [errors |-> errs, printed |-> ReportLines(errs)]

\* report_errors, called between Parser::new and parse_program or after parse_program
ReportErrors ==
    /\ pc \in {"parser", "done"}
    /\ Len(stderr) < MaxReports
    /\ LET r == report_errors(errors)
       IN  /\ errors' = r.errors
           /\ stderr' = Append(stderr, r.printed)
    /\ UNCHANGED <<src, input, pc, lexer, calls, current_token, peek_token, statements, line_num>>

LexerNext == NewLexer \/ NextToken

Next == NewLexer \/ NextToken \/ NewParser \/ ParseProgramStart \/ ParseProgramBreak \/ ParseProgramIter

\* a parser client that also reports: main calls report_errors after parse_program
ReportingNext == Next \/ ReportErrors

(***************************************************************************)
(* Specifications: the same client, over different families of inputs.     *)
(***************************************************************************)
W_let == <<"l","e","t">>
W_fn == <<"f","n">>
W_true == <<"t","r","u","e">>
W_false == <<"f","a","l","s","e">>
W_if == <<"i","f">>
W_else == <<"e","l","s","e">>
W_return == <<"r","e","t","u","r","n">>
W_Let == <<"L","e","t">>
W_foo == <<"f","o","o">>

\* any text: words, single characters of every class, NUL, and a whole statement
GeneralPieces ==
    {Raw(W_let), Raw(<<"x">>), Raw(<<"z">>), Raw(<<"=">>), Raw(<<"5">>), Raw(<<";">>),
     Raw(<<" ">>), Raw(<<"\n">>), Raw(<<NUL>>), Raw(<<"!">>), Raw(W_if),
     Raw(W_let \o <<" ","x"," ","="," ","5",";">>)}

Init == InitWith(GeneralPieces, MaxPieces)

Spec == Init /\ [][Next]_vars

\* whitespace and line breaks only
SpaceChars == {" ", "\t", "\r", "\n"}

InitWs == InitWith({Raw(<<c>>) : c \in SpaceChars}, MaxWs)

SpecWs == InitWs /\ [][LexerNext]_vars

\* the characters of the fixed symbol set only
SymbolChars == {"=", "!", "+", "-", "*", "/", "<", ">", ",", ";", "(", ")", "{", "}"}

InitSymbols == InitWith({Raw(<<c>>) : c \in SymbolChars}, MaxSymbols)

SpecSymbols == InitSymbols /\ [][LexerNext]_vars

\* identifier-class words, with and without whitespace between them
WordPieces ==
    {Raw(W_fn), Raw(W_let), Raw(W_true), Raw(W_false), Raw(W_if), Raw(W_else),
     Raw(W_return), Raw(W_Let), Raw(W_foo), Raw(<<" ">>), Raw(<<";">>)}

InitWords == InitWith(WordPieces, MaxPieces)

SpecWords == InitWords /\ [][LexerNext]_vars

\* programs: statements of the forms `let <identifier> = <integer>;`, `let = <integer>;`,
\* `let <identifier> <integer>;` and `return <integer>;`, on one line or one per line
Idents == {<<"x">>, <<"z">>, W_foo}
Ints == {<<"5">>, <<"1","0">>}
Seps == {<<>>, <<" ">>, <<"\n">>}

LetText(id, val) == W_let \o <<" ">> \o id \o <<" ","="," ">> \o val \o <<";">>
NoIdentText(val) == W_let \o <<" ","="," ">> \o val \o <<";">>
NoAssignText(id, val) == W_let \o <<" ">> \o id \o <<" ">> \o val \o <<";">>
ReturnText(val) == W_return \o <<" ">> \o val \o <<";">>

StatementPieces ==
    {Piece("let", LetText(id, val) \o sep, id) : id \in Idents, val \in Ints, sep \in Seps}
    \cup {Piece("no_ident", NoIdentText(val) \o sep, <<>>) : val \in Ints, sep \in Seps}
    \cup {Piece("no_assign", NoAssignText(<<"x">>, val) \o sep, <<"x">>) : val \in Ints, sep \in Seps}
    \cup {Piece("return", ReturnText(val) \o sep, <<>>) : val \in Ints, sep \in Seps}

InitStatements == InitWith(StatementPieces, MaxStmts)

SpecStatements == InitStatements /\ [][Next]_vars

\* the sample script, one statement per line, and the programs put together from its lines
W_five == <<"f","i","v","e">>
W_ten == <<"t","e","n">>
W_add == <<"a","d","d">>
W_result == <<"r","e","s","u","l","t">>

SampleLine1 == <<"l","e","t"," ","f","i","v","e"," ","="," ","5",";","\n">>
SampleLine2 == <<"l","e","t"," ","t","e","n"," ","="," ","1","0",";","\n">>
SampleLine3 == <<"l","e","t"," ","a","d","d"," ","="," ","f","n","(","x",","," ","y",")","{"," ","x"," ","+"," ","y",";"," ","}",";","\n">>
SampleLine4 == <<"l","e","t"," ","r","e","s","u","l","t"," ","="," ","a","d","d","(","f","i","v","e",","," ","t","e","n",")",";","\n">>

SampleProgram ==
    <<Piece("let", SampleLine1, W_five), Piece("let", SampleLine2, W_ten),
      Piece("let", SampleLine3, W_add), Piece("let", SampleLine4, W_result)>>

SamplePieces == {SampleProgram[i] : i \in DOMAIN SampleProgram}

InitSample == InitWith(SamplePieces, MaxSample)

SpecSample == InitSample /\ [][Next]_vars

\* statements of every form, closed by `;` or left open at the end of the input
ExprFive == <<"5">>
ExprSum == <<"x"," ","+"," ","1","0">>
ExprPrecedence == <<"a"," ","+"," ","b"," ","*"," ","c">>
LetPrecedence == <<"l","e","t"," ","x"," ","="," ","a"," ","+"," ","b"," ","*"," ","c">>
ReturnBare == <<"r","e","t","u","r","n",";">>
LetEmpty == <<"l","e","t"," ","x"," ","="," ",";">>
LetOpen == <<"l","e","t"," ","x"," ","="," ","5">>
ReturnOpen == <<"r","e","t","u","r","n"," ","5">>

FormSeps == {<<>>, <<"\n">>}

FormPieces ==
    {Piece("let", LetText(<<"x">>, <<"5">>) \o sep, <<"x">>) : sep \in FormSeps}
    \cup {Piece("no_ident", NoIdentText(<<"5">>) \o sep, <<>>) : sep \in FormSeps}
    \cup {Piece("expr", e \o <<";">> \o sep, <<>>) : e \in {ExprFive, ExprSum}, sep \in FormSeps}
    \cup {Piece("expr_open", e \o sep, <<>>) : e \in {ExprFive, ExprSum}, sep \in FormSeps}
    \cup {Piece("precedence", e \o <<";">> \o sep, <<>>) : e \in {ExprPrecedence, LetPrecedence}, sep \in FormSeps}
    \cup {Piece("return_bare", ReturnBare \o sep, <<>>) : sep \in FormSeps}
    \cup {Piece("let_open", LetOpen \o sep, <<"x">>) : sep \in FormSeps}
    \cup {Piece("let_empty", LetEmpty \o sep, <<"x">>) : sep \in FormSeps}
    \cup {Piece("return_open", ReturnOpen \o sep, <<>>) : sep \in FormSeps}

InitForms == InitWith(FormPieces, MaxStmts)

SpecForms == InitForms /\ [][Next]_vars

\* a client that reports its errors, over programs with and without errors
ReportPieces ==
    {Piece("let", LetText(<<"x">>, <<"5">>) \o <<"\n">>, <<"x">>),
     Piece("no_ident", NoIdentText(<<"5">>) \o <<"\n">>, <<>>),
     Piece("expr", ExprFive \o <<";", "\n">>, <<>>)}

InitReporting == InitWith(ReportPieces, MaxStmts)

SpecReporting == InitReporting /\ [][ReportingNext]_vars

\* any text, character by character: a character of every class
CharPieces ==
    {Raw(<<c>>) : c \in {"a", "z", "_", "1", "2", Half, "@", "=", "!", ";", " ", "\n", NUL}}

InitChars == InitWith(CharPieces, MaxChars)

SpecChars == InitChars /\ [][LexerNext]_vars

\* programs that go through every path of the loop of parse_program: statements that
\* parse, statements that fail before and inside the expression loop, tokens that
\* start no statement, and an end-of-input character in mid-text
FairPieces ==
    {Piece("let", LetText(<<"x">>, <<"5">>) \o <<"\n">>, <<"x">>),
     Piece("no_ident", NoIdentText(<<"5">>), <<>>),
     Piece("no_assign", NoAssignText(<<"x">>, <<"5">>), <<"x">>),
     Piece("let_open", LetOpen, <<"x">>),
     Piece("expr", ExprSum \o <<";">>, <<>>),
     Raw(W_if),
     Raw(<<NUL>>)}

InitFair == InitWith(FairPieces, MaxStmts)

\* the loop of parse_program goes round: ParseProgramIter can step
IterEnabled == pc = "parsing" /\ peek_token.type # "EOF"

\* a call runs to its end: a client that has constructed a lexer goes on calling
\* next_token, and parse_program, once called, runs its loop until it breaks.  The
\* last conjunct is the weak fairness of ParseProgramIter with its enabling
\* condition written out.
Fairness ==
    /\ WF_vars(NextToken)
    /\ WF_vars(ParseProgramStart)
    /\ WF_vars(ParseProgramBreak)
    /\ ([]<>(~IterEnabled) \/ []<><<ParseProgramIter>>_vars)

FairSpec == InitFair /\ [][Next]_vars /\ Fairness

(***************************************************************************)
(* What the specification says of the lexical classes, for stating the     *)
(* claims: the letter class [A-Za-z_], the keyword table, the symbol       *)
(* table with its two-character operators.                                 *)
(***************************************************************************)
IdentClass == {"_"} \cup LowerAY \cup UpperAY \cup {"z", "Z"}

KeywordKind(s) ==
    CASE s = W_fn -> "Function"
      [] s = W_let -> "Let"
      [] s = W_true -> "True"
      [] s = W_false -> "False"
      [] s = W_if -> "If"
      [] s = W_else -> "Else"
      [] s = W_return -> "Return"
      [] OTHER -> "Ident"

SymbolKind(c) ==
    CASE c = "=" -> "Assign" [] c = "!" -> "Bang" [] c = "+" -> "Plus" [] c = "-" -> "Minus"
      [] c = "*" -> "Asterisk" [] c = "/" -> "Slash" [] c = "<" -> "Lt" [] c = ">" -> "Gt"
      [] c = "," -> "Comma" [] c = ";" -> "Semicolon" [] c = "(" -> "LParen"
      [] c = ")" -> "RParen" [] c = "{" -> "LBrace" [] c = "}" -> "RBrace"
      [] OTHER -> "Illegal"

\* the tokens of a text made of symbols only, from the 0-based index i on
RECURSIVE SymbolTokensFrom(_, _)
SymbolTokensFrom(text, i) ==
    IF i >= Len(text) THEN <<>>
    ELSE IF text[i + 1] = "=" /\ Nth(text, i + 1) = "="
         THEN <<Token("Eq", <<"=", "=">>)>> \o SymbolTokensFrom(text, i + 2)
    ELSE IF text[i + 1] = "!" /\ Nth(text, i + 1) = "="
         THEN <<Token("NotEq", <<"!", "=">>)>> \o SymbolTokensFrom(text, i + 2)
    ELSE <<Token(SymbolKind(text[i + 1]), <<text[i + 1]>>)>> \o SymbolTokensFrom(text, i + 1)

\* the 0-based index of the first character at or after i that is not whitespace
RECURSIVE TokenStart(_, _)
TokenStart(text, i) ==
    IF i < Len(text) /\ text[i + 1] \in SpaceChars THEN TokenStart(text, i + 1) ELSE i

\* the maximal run of identifier-class characters from the 0-based index i on
RECURSIVE IdentRun(_, _)
IdentRun(text, i) ==
    IF i < Len(text) /\ text[i + 1] \in IdentClass
    THEN <<text[i + 1]>> \o IdentRun(text, i + 1)
    ELSE <<>>

(***************************************************************************)
(* Claims.                                                                 *)
(***************************************************************************)

\* C1: Lexer::new fails if and only if the text is empty, and Parser::new fails
\* exactly when Lexer::new does: a construction error is reached only from the empty
\* text, and every state past construction has a non-empty text.
C1_ConstructionFailsIffEmpty ==
    /\ pc \in {"lexer_err", "parser_err"} => Len(input) = 0
    /\ pc \in {"lexer", "parser", "parsing", "done", "panic"} => Len(input) > 0

\* C1 witness: Parser::new has failed on the empty text
C1_Witness == pc = "parser_err" /\ input = <<>>

\* C2: once next_token has returned an end-of-input token, every later call returns
\* an end-of-input token with empty literal.
C2_EOFIsFinal ==
    \A i \in DOMAIN calls : \A j \in DOMAIN calls :
        (i < j /\ calls[i].tok.type = "EOF") => calls[j].tok = EOFToken

\* C3: for a non-empty text of symbols only, the calls of next_token return the token
\* of each symbol in source order, then end-of-input tokens.
C3_SymbolsLexExactly ==
    LET expected == SymbolTokensFrom(input, 0)
    IN  \A k \in DOMAIN calls :
            calls[k].tok = IF k <= Len(expected) THEN expected[k] ELSE EOFToken

\* C4: a maximal identifier-class run is returned as one token, with its keyword kind
\* if it is one of fn, let, true, false, if, else, return, and with kind Ident if not.
C4_KeywordTableExact ==
    \A k \in DOMAIN calls :
        LET s == TokenStart(input, calls[k].pos)
            run == IdentRun(input, s)
        IN  run # <<>> => calls[k].tok = Token(KeywordKind(run), run)

\* C5: '=' followed by '=' is one Eq token "==", '!' followed by '=' is one NotEq token
\* "!="; '=' or '!' followed by anything else is Assign or Bang.
C5_MaximalMunch ==
    \A k \in DOMAIN calls :
        LET s == TokenStart(input, calls[k].pos)
            c == Nth(input, s)
            n == Nth(input, s + 1)
        IN  /\ (c = "=" /\ n = "=") => calls[k].tok = Token("Eq", <<"=", "=">>)
            /\ (c = "=" /\ n # "=") => calls[k].tok = Token("Assign", <<"=">>)
            /\ (c = "!" /\ n = "=") => calls[k].tok = Token("NotEq", <<"!", "=">>)
            /\ (c = "!" /\ n # "=") => calls[k].tok = Token("Bang", <<"!">>)

\* C6: for a non-empty text of whitespace and line breaks only, the first call of
\* next_token, and every call after it, returns the end-of-input token.
C6_WhitespaceOnlyIsEOF ==
    (input # <<>> /\ \A i \in DOMAIN input : input[i] \in SpaceChars)
        => \A k \in DOMAIN calls : calls[k].tok = EOFToken

\* C6 witness: a text of several whitespace characters, a carriage return among them,
\* has been lexed past its end
C6_Witness ==
    /\ Len(input) >= 2
    /\ \E i \in DOMAIN input : input[i] = "\r"
    /\ \A i \in DOMAIN input : input[i] \in SpaceChars
    /\ Len(calls) >= 2

\* the identifier names of the let assignments of a program, in order
RECURSIVE AssignmentNames(_)
AssignmentNames(stmts) ==
    IF stmts = <<>> THEN <<>>
    ELSE IF Head(stmts).kind = "Assignment"
         THEN <<Head(stmts).identifier.name>> \o AssignmentNames(Tail(stmts))
         ELSE AssignmentNames(Tail(stmts))

\* a occurs in b, in order
RECURSIVE IsSubSeq(_, _)
IsSubSeq(a, b) ==
    IF a = <<>> THEN TRUE
    ELSE IF b = <<>> THEN FALSE
    ELSE IF Head(a) = Head(b) THEN IsSubSeq(Tail(a), Tail(b))
    ELSE IsSubSeq(a, Tail(b))

AllOfKind(pieces, kind) == \A i \in DOMAIN pieces : pieces[i].kind = kind

IdsOf(pieces) == [i \in DOMAIN pieces |-> pieces[i].id]

\* C7: for n >= 1 well-formed statements `let <identifier> = <integer>;`, parse_program
\* returns exactly n statements, every one a let assignment, named as in the source
\* and in source order.
C7_LetProgramParses ==
    (pc = "done" /\ Len(src) >= 1 /\ AllOfKind(src, "let"))
        => /\ Len(statements) = Len(src)
           /\ \A i \in DOMAIN statements : statements[i].kind = "Assignment"
           /\ AssignmentNames(statements) = IdsOf(src)

\* C8: for n >= 1 statements `return <integer>;`, parse_program returns exactly n
\* statements, every one a Return statement whose token has kind Return.
C8_ReturnProgramParses ==
    (pc = "done" /\ Len(src) >= 1 /\ AllOfKind(src, "return"))
        => /\ Len(statements) = Len(src)
           /\ \A i \in DOMAIN statements :
                statements[i].kind = "Return" /\ statements[i].token.type = "Return"

\* C9: parsing `let = 5;` records exactly one diagnostic, which names the expected
\* identifier and the literal found, appends no statement and does not panic.
C9_MissingIdentifierOneDiagnostic ==
    input = NoIdentText(<<"5">>)
        => /\ pc # "panic"
           /\ pc = "done"
                => /\ Len(errors) = 1
                   /\ errors[1].message = <<"Expected identifier, found '", "=", "'">>
                   /\ statements = <<>>

\* C10: after a malformed let statement that ends with `;`, the k >= 1 well-formed
\* let statements that follow are all in the returned program, in source order, and
\* at least one diagnostic is recorded.
C10_RecoversAfterMalformedLet ==
    (/\ pc = "done"
     /\ Len(src) >= 2
     /\ src[1].kind \in {"no_ident", "no_assign"}
     /\ AllOfKind(Tail(src), "let"))
        => /\ Len(errors) >= 1
           /\ IsSubSeq(IdsOf(Tail(src)), AssignmentNames(statements))

\* C11: the four-statement sample program parses to exactly 4 let statements named
\* five, ten, add, result in that order, and Parser.errors is empty.
C11_SampleProgramParsesClean ==
    (pc = "done" /\ src = SampleProgram)
        => /\ Len(statements) = 4
           /\ \A i \in DOMAIN statements : statements[i].kind = "Assignment"
           /\ AssignmentNames(statements) = <<W_five, W_ten, W_add, W_result>>
           /\ errors = <<>>

\* C12: a program that is one bare expression, `5;` or `x + 10;`, with or without the
\* trailing `;`, parses to one ExpressionStatement and no diagnostic.
C12_ExpressionStatementParses ==
    (pc = "done" /\ Len(src) = 1 /\ src[1].kind \in {"expr", "expr_open"})
        => /\ Len(statements) = 1
           /\ statements[1].kind = "SingleExpression"
           /\ errors = <<>>

LineBreaks(text) == Cardinality({i \in DOMAIN text : text[i] = "\n"})

\* C13: a diagnostic carries the 1-based number of the line of the failing statement:
\* after one well-formed let statement, the diagnostics of a malformed statement carry
\* 1 plus the number of line breaks before it.
C13_DiagnosticLineNumber ==
    (/\ pc = "done"
     /\ Len(src) = 2
     /\ src[1].kind = "let" /\ src[1].id # <<"z">>
     /\ src[2].kind \in {"no_ident", "no_assign"})
        => /\ errors # <<>>
           /\ \A i \in DOMAIN errors : errors[i].line_num = 1 + LineBreaks(src[1].text)

C15_MissingSemicolonOneDiagnostic ==
    (/\ pc = "done"
     /\ Len(src) >= 1
     /\ src[Len(src)].kind \in {"let_open", "return_open"}
     /\ AllOfKind(SubSeq(src, 1, Len(src) - 1), "let"))
        => /\ Len(errors) = 1
           /\ errors[1].message = MsgExpectedSemicolon
           /\ Len(statements) = Len(src) - 1

\* C16: `return;` parses to exactly one Return statement with an empty expression,
\* and Parser.errors stays empty.
C16_BareReturnParses ==
    (pc = "done" /\ Len(src) = 1 /\ src[1].kind = "return_bare" /\ input = ReturnBare)
        => /\ Len(statements) = 1
           /\ statements[1].kind = "Return"
           /\ ExpressionLiteral(statements[1].value) = <<>>
           /\ errors = <<>>

\* C17: a report_errors call, before or after parse_program, changes neither
\* Parser.errors, nor the current and peek tokens and the lexer cursor, nor the
\* statements of the program.
C17_ReportErrorsIsObserver ==
    [][Len(stderr') > Len(stderr)
        => /\ errors' = errors
           /\ current_token' = current_token
           /\ peek_token' = peek_token
           /\ lexer' = lexer
           /\ statements' = statements]_vars

\* C17 witness: report_errors was called before and after a parse_program that
\* recorded diagnostics and returned statements
C17_Witness ==
    /\ pc = "done"
    /\ Len(stderr) = 2 /\ stderr[1] = <<>> /\ stderr[2] # <<>>
    /\ statements # <<>>

Infix(operator, left, right) ==
    [kind |-> "Infix", operator |-> operator, left |-> left, right |-> right]

IdentifierNode(name) == [kind |-> "Identifier", name |-> name]

ExpressionOf(statement) ==
    IF statement.kind = "SingleExpression" THEN statement.expression ELSE statement.value

\* C18: parsing `a + b * c` yields an infix `+` whose left child is the identifier a
\* and whose right child is an infix `*` over b and c.
C18_PrecedenceTree ==
    (pc = "done" /\ Len(src) = 1 /\ src[1].kind = "precedence")
        => \E i \in DOMAIN statements :
              ExpressionOf(statements[i]) =
                  Infix(<<"+">>, IdentifierNode(<<"a">>),
                        Infix(<<"*">>, IdentifierNode(<<"b">>), IdentifierNode(<<"c">>)))

\* C19: a maximal run of characters of [A-Za-z_] is returned by next_token as exactly
\* one token whose literal is the whole run.
C19_IdentifierRunIsOneToken ==
    \A k \in DOMAIN calls :
        LET run == IdentRun(input, TokenStart(input, calls[k].pos))
        IN  run # <<>> => calls[k].tok.literal = run

LastMessage(errs) == errs[Len(errs)].message

\* the diagnostic for a `let` not followed by an identifier is recorded by this step,
\* and no statement is appended
RecordsExpectedIdentifier ==
    /\ Len(errors') = Len(errors) + 1
    /\ LastMessage(errors') = <<"Expected identifier, found '">> \o peek_token.literal \o <<"'">>
    /\ SubSeq(errors', 1, Len(errors)) = errors
    /\ statements' = statements

\* C20 as claimed: whenever the loop of parse_program stands at a `let` token followed
\* by a token of any kind but Ident, end of input included, its step records
\* "Expected identifier, found '<literal>'" and appends no statement.
C20_LetWithoutIdentifier_Claimed ==
    [][(pc = "parsing" /\ current_token.type = "Let" /\ peek_token.type # "Ident")
        => RecordsExpectedIdentifier]_vars

\* C20 as amended: whenever the loop of parse_program stands at a `let` token followed
\* by a token that is neither an identifier nor the end of the input, its step records
\* "Expected identifier, found '<literal>'" and appends no statement.
C20_LetWithoutIdentifier ==
    [][(pc = "parsing" /\ current_token.type = "Let" /\ peek_token.type \notin {"Ident", "EOF"})
        => RecordsExpectedIdentifier]_vars

\* C20 witness: a `let` followed by `=` has been reported
C20_Witness ==
    /\ pc \in {"parsing", "done"}
    /\ errors # <<>>
    /\ errors[1].message = <<"Expected identifier, found '", "=", "'">>

\* the parser as the expression loop of the statement at the head of the loop of
\* parse_program finds it: past `let <identifier> =`, or at `return`
ExpLoopEntry(p) ==
    IF current_token_is_of_type(p, "Let")
    THEN Parser_next_token(input, Parser_next_token(input, p))
    ELSE p

\* every iteration of the expression loop, one per literal it pushed, moved the
\* cursor on
ExpLoopAdvances(p) ==
    LET r == ExpLoop(input, p, <<>>)
    IN  r.p.lexer.position >= p.lexer.position + Len(r.exp_literals)

AtExpressionLoop ==
    /\ pc = "parsing"
    /\ \/ current_token.type = "Return"
       \/ /\ current_token.type = "Let"
          /\ peek_token.type = "Ident"
          /\ Parser_next_token(input, ThisParser).peek_token.type = "Assign"

LastCallIsEOF == calls # <<>> /\ calls[Len(calls)].tok.type = "EOF"

\* C21: parse_program terminates: every iteration of its loop moves the cursor of the
\* lexer on, every iteration of the expression loops of parse_let_statement and
\* parse_return_statement does, a parse_program that has started returns, and a
\* client that goes on calling next_token gets an end-of-input token.
C21_ParseProgramTerminates ==
    /\ [][(pc = "parsing" /\ pc' = "parsing") => lexer'.position > lexer.position]_vars
    /\ [](AtExpressionLoop => ExpLoopAdvances(ExpLoopEntry(ThisParser)))
    /\ (pc = "parsing") ~> (pc = "done")
    /\ (pc = "lexer") ~> LastCallIsEOF

\* C21 witness: parse_program has returned after iterations that went through the
\* expression loop of a let statement and iterations that did not
C21_Witness ==
    /\ pc = "done"
    /\ statements # <<>>
    /\ errors # <<>>
    /\ lexer.position > Len(input)

\* the literals of the tokens from the token r on, up to the first `;` or the end of
\* the input
RECURSIVE ValueLiteralsFrom(_, _)
ValueLiteralsFrom(text, r) ==
    IF r.tok.type \in {"Semicolon", "EOF"} THEN <<>>
    ELSE <<r.tok.literal>> \o ValueLiteralsFrom(text, Lexer_next_token(text, r.lx))

\* a `;` comes before the end of the input
RECURSIVE ValueClosedFrom(_, _)
ValueClosedFrom(text, r) ==
    IF r.tok.type = "Semicolon" THEN TRUE
    ELSE IF r.tok.type = "EOF" THEN FALSE
    ELSE ValueClosedFrom(text, Lexer_next_token(text, r.lx))

\* the lexer right after the first `;` from the token r on
RECURSIVE LexerAfterValue(_, _)
LexerAfterValue(text, r) ==
    IF r.tok.type \in {"Semicolon", "EOF"} THEN r.lx
    ELSE LexerAfterValue(text, Lexer_next_token(text, r.lx))

\* the token after the peeked identifier of a let statement, and the one after it
TokenAfterIdentifier == Lexer_next_token(input, lexer)

FirstValueToken == Lexer_next_token(input, TokenAfterIdentifier.lx)

\* the loop of parse_program stands at `let <identifier> = ... ;`
AtWellFormedLet ==
    /\ pc = "parsing"
    /\ current_token.type = "Let"
    /\ peek_token.type = "Ident"
    /\ TokenAfterIdentifier.tok.type = "Assign"
    /\ ValueClosedFrom(input, FirstValueToken)

\* C22: for a well-formed let statement, parse_let_statement returns Ok with the
\* first `;` after the `=` as current token, and the expression of the statement it
\* returns, which the loop appends, is the literals of the tokens strictly between
\* the `=` and that `;`, in order and joined by single spaces.
C22_LetValueIsTokensUpToSemicolon ==
    [][AtWellFormedLet
        => LET r == parse_let_statement(input, ThisParser)
           IN  /\ r.ok
               /\ r.p.current_token = Token("Semicolon", <<";">>)
               /\ r.p.lexer = Lexer_next_token(input, LexerAfterValue(input, FirstValueToken)).lx
               /\ r.statement.kind = "Assignment"
               /\ ExpressionLiteral(r.statement.value) = Join(ValueLiteralsFrom(input, FirstValueToken))
               /\ statements' = Append(statements, r.statement)]_vars

\* C22 witness: a let statement whose value is several tokens has been appended, and
\* so has one whose value is no token at all
C22_Witness ==
    /\ pc = "done"
    /\ Len(statements) = 2
    /\ ExpressionLiteral(statements[1].value) = <<"a", " ", "+", " ", "b", " ", "*", " ", "c">>
    /\ ExpressionLiteral(statements[2].value) = <<>>

\* the 0-based index of the cursor when call k of next_token had returned
PosAfter(k) == IF k < Len(calls) THEN calls[k + 1].pos ELSE lexer.position

\* C23: a character that is no whitespace, no letter, no digit, no symbol and not NUL
\* is returned as an Illegal token whose literal is that one character, and the
\* cursor is left right after it.
C23_IllegalCharacterIsOneToken ==
    \A k \in DOMAIN calls :
        LET s == TokenStart(input, calls[k].pos)
            c == Nth(input, s)
        IN  (s < Len(input) /\ c \notin SpaceChars \cup IdentClass \cup AsciiDigits \cup SymbolChars \cup {NUL})
                => /\ calls[k].tok = Token("Illegal", <<c>>)
                   /\ PosAfter(k) = s + 1

\* the maximal run of decimal digits from the 0-based index i on
RECURSIVE DigitRun(_, _)
DigitRun(text, i) ==
    IF i < Len(text) /\ text[i + 1] \in AsciiDigits
    THEN <<text[i + 1]>> \o DigitRun(text, i + 1)
    ELSE <<>>

\* C24: a maximal run of decimal digits is returned as one Int token whose literal is
\* the whole run, an Int literal holds decimal digits only, and a digit right after
\* an identifier or keyword token starts an Int token of its own.
C24_DigitRunIsOneInt ==
    \A k \in DOMAIN calls :
        LET run == DigitRun(input, TokenStart(input, calls[k].pos))
            after == DigitRun(input, PosAfter(k))
        IN  /\ run # <<>> => calls[k].tok = Token("Int", run)
            /\ calls[k].tok.type = "Int"
                 => \A i \in DOMAIN calls[k].tok.literal : calls[k].tok.literal[i] \in AsciiDigits
            /\ (calls[k].tok.type \in {"Ident", "Let", "Function"} /\ after # <<>> /\ k < Len(calls))
                 => calls[k + 1].tok = Token("Int", after)

\* the cursor of lx is on one character of the text, or on NUL past its end
CursorInvariant(text, lx) ==
    /\ lx.read_position = lx.position + 1
    /\ lx.char = IF lx.position < Len(text) THEN text[lx.position + 1] ELSE NUL

\* C25: in every state of a lexer, its own or a parser's, read_position = position + 1
\* and char is the character of the input at index position, or NUL at or past the
\* end; Lexer::new gives such a state and read_char leads from such a state to
\* another.
C25_CursorInvariant ==
    pc \notin {"start", "lexer_err", "parser_err"}
        => /\ CursorInvariant(input, lexer)
           /\ CursorInvariant(input, LexerNew(input))
           /\ CursorInvariant(input, read_char(input, lexer))

\* C25 witness: a lexer has been read past the end of its input
C25_Witness ==
    /\ pc = "lexer"
    /\ Len(calls) >= 2
    /\ lexer.position > Len(input)
    /\ lexer.char = NUL

\* the text without its whitespace characters
StripWhitespace(text) == SelectSeq(text, LAMBDA c : c \notin SpaceChars)

\* the number of calls before the first that returned an end-of-input token
RECURSIVE CallsBeforeEOF(_)
CallsBeforeEOF(cs) ==
    IF cs = <<>> \/ Head(cs).tok.type = "EOF" THEN 0 ELSE 1 + CallsBeforeEOF(Tail(cs))

LiteralsOf(cs) == Flatten([i \in DOMAIN cs |-> cs[i].tok.literal])

\* C26: for a non-empty input without NUL, the literals of the tokens returned before
\* the first end-of-input token, concatenated in order, are the input read so far
\* without its whitespace characters, and the whole input without them once the
\* end-of-input token is returned.
C26_LexingIsLossless ==
    (pc = "lexer" /\ \A i \in DOMAIN input : input[i] # NUL)
        => LET n == CallsBeforeEOF(calls)
               literals == LiteralsOf(SubSeq(calls, 1, n))
           IN  /\ literals = StripWhitespace(SubSeq(input, 1, PosAfter(n)))
               /\ n < Len(calls) => literals = StripWhitespace(input)

\* C26 witness: an input of a letter, whitespace and a character of no token class
\* has been lexed to its end
C26_Witness ==
    /\ pc = "lexer"
    /\ Len(input) = 3
    /\ \A i \in DOMAIN input : input[i] # NUL
    /\ \E i \in DOMAIN input : input[i] \in SpaceChars
    /\ \E k \in DOMAIN calls : calls[k].tok.type = "Illegal"
    /\ \E k \in DOMAIN calls : calls[k].tok.type = "Ident"
    /\ LastCallIsEOF

====
